---- MODULE Spec2Model ----
(***************************************************************************)
(* The Portfolio Growth Projector of investment_analyzer.py                *)
(* (growthProjector): the portfolio, typed in or imported from a file      *)
(* (importPortfolioFromCSV), the holding period, the per-security          *)
(* projection loop and the portfolio summary.                              *)
(*                                                                         *)
(* Floating-point values are modelled as exact rationals extended with     *)
(* the two IEEE-754 specials the program can produce, NaN and +Infinity    *)
(* (every price and amount the program handles is >= 0, so -Infinity does  *)
(* not arise).  Rounding is not modelled.                                  *)
(***************************************************************************)
EXTENDS Integers, Sequences, FiniteSets, TLC

(***************************************************************************)
(* Bounds of the model.                                                    *)
(***************************************************************************)
MaxHoldings == 2
MaxPeriod == 3

(***************************************************************************)
(* Numbers: [k |-> "fin", n, d] is the rational n/d (d > 0, lowest terms), *)
(* [k |-> "nan"] is NaN and [k |-> "inf"] is +Infinity.                    *)
(***************************************************************************)
RECURSIVE GCD(_, _)
GCD(a, b) == IF b = 0 THEN a ELSE GCD(b, a % b)

Abs(x) == IF x < 0 THEN -x ELSE x

Rat(n, d) ==
    LET g == GCD(Abs(n), d)
    IN  [k |-> "fin", n |-> n \div g, d |-> d \div g]

NaN == [k |-> "nan", n |-> 0, d |-> 1]
Inf == [k |-> "inf", n |-> 0, d |-> 1]
Zero == Rat(0, 1)
One == Rat(1, 1)

IsNaN(x) == x.k = "nan"
IsInf(x) == x.k = "inf"
IsFinite(x) == x.k = "fin"

\* x < y, x <= y, x > y on floats: every comparison with NaN is false.
Lt(x, y) ==
    CASE IsNaN(x) \/ IsNaN(y) -> FALSE
      [] IsInf(x) -> FALSE
      [] IsInf(y) -> TRUE
      [] OTHER -> x.n * y.d < y.n * x.d

Le(x, y) ==
    CASE IsNaN(x) \/ IsNaN(y) -> FALSE
      [] IsInf(y) -> TRUE
      [] IsInf(x) -> FALSE
      [] OTHER -> x.n * y.d <= y.n * x.d

Gt(x, y) == Lt(y, x)

Add(x, y) ==
    CASE IsNaN(x) \/ IsNaN(y) -> NaN
      [] IsInf(x) \/ IsInf(y) -> Inf
      [] OTHER ->
           LET g == GCD(x.d, y.d)
               l == (x.d \div g) * y.d
           IN  Rat(x.n * (l \div x.d) + y.n * (l \div y.d), l)

\* x - 1 (the only subtraction the projection makes).
MinusOne(x) ==
    CASE IsNaN(x) -> NaN
      [] IsInf(x) -> Inf
      [] OTHER -> Rat(x.n - x.d, x.d)

\* x * y for x, y >= 0 (inf * 0 is NaN).
Mul(x, y) ==
    CASE IsNaN(x) \/ IsNaN(y) -> NaN
      [] IsInf(x) -> IF y = Zero THEN NaN ELSE Inf
      [] IsInf(y) -> IF x = Zero THEN NaN ELSE Inf
      [] OTHER ->
           LET g1 == GCD(Abs(x.n), y.d)
               g2 == GCD(Abs(y.n), x.d)
           IN  Rat((x.n \div g1) * (y.n \div g2), (x.d \div g2) * (y.d \div g1))

\* x / y for x, y >= 0, as numpy's float64 divides: x/0 is inf, 0/0 is NaN.
Div(x, y) ==
    CASE IsNaN(x) \/ IsNaN(y) -> NaN
      [] IsInf(x) -> IF IsInf(y) THEN NaN ELSE Inf
      [] IsInf(y) -> Zero
      [] y = Zero -> IF x = Zero THEN NaN ELSE Inf
      [] OTHER -> Mul(x, Rat(y.d, y.n))

\* x ** e for an integer e >= 0.
RECURSIVE Pow(_, _)
Pow(x, e) ==
    IF e = 0 THEN One
    ELSE IF x = One \/ x = Zero THEN x
    ELSE Mul(x, Pow(x, e - 1))

\* The integer q-th root of n (exact on every price ratio of Market).
RECURSIVE IPow(_, _)
IPow(b, e) == IF e = 0 THEN 1 ELSE b * IPow(b, e - 1)

RECURSIVE RootFrom(_, _, _)
RootFrom(r, n, q) == IF IPow(r + 1, q) > n THEN r ELSE RootFrom(r + 1, n, q)

IRoot(n, q) == IF q = 1 THEN n ELSE RootFrom(0, n, q)

\* x ** (p / q) for x >= 0 and integers p, q > 0.
PowFrac(x, p, q) ==
    CASE IsNaN(x) -> NaN
      [] IsInf(x) -> Inf
      [] OTHER ->
           LET g == GCD(p, q)
               pp == p \div g
               qq == q \div g
           IN  Pow(Rat(IRoot(x.n, qq), IRoot(x.d, qq)), pp)

RECURSIVE SumSeq(_)
\* Python's sum(...): 0 + s[1] + s[2] + ...
SumSeq(s) ==
    IF s = <<>> THEN Zero
    ELSE Add(SumSeq(SubSeq(s, 1, Len(s) - 1)), s[Len(s)])


(***************************************************************************)
(* Program constants.                                                      *)
(***************************************************************************)
TRADING_DAYS == 252
INFLATION_RATE == Rat(25, 1000)
MAX_CAGR == Rat(15, 100)

(***************************************************************************)
(* The market data yfinance returns for each ticker: whether the lookup    *)
(* raises, the "max" history, the days between its first row and the       *)
(* earliest moment of Clock, and the "5y" history.  A history is what the  *)
(* program reads of the DataFrame: its number of rows and its first and    *)
(* last closing prices.                                                    *)
(***************************************************************************)
History(period, len, first, last) ==
    [period |-> period, len |-> len, first |-> first, last |-> last]

NoRows(period) == History(period, 0, NaN, NaN)

Feed(raises, ipo_days, max_history, hist5y) ==
    [raises |-> raises, ipo_days |-> ipo_days,
     max_history |-> max_history, hist5y |-> hist5y]

Market ==
    [HYPE  |-> Feed(FALSE, 183, History("max", 126, Rat(100, 1), Rat(120, 1)),
                                History("5y", 126, Rat(100, 1), Rat(120, 1))),
     MIDCO |-> Feed(FALSE, 1826, History("max", 1764, Rat(1, 1), Rat(128, 1)),
                                 History("5y", 1260, Rat(100000, 1), Rat(161051, 1))),
     OLDCO |-> Feed(FALSE, 7305, History("max", 5040, Rat(1, 1), Rat(1, 1)),
                                 History("5y", 1260, Rat(100000, 1), Rat(59049, 1))),
     FLAT  |-> Feed(FALSE, 4383, History("max", 3024, Rat(5, 1), Rat(50, 1)),
                                 History("5y", 1260, Rat(50, 1), Rat(50, 1))),
     ZERO  |-> Feed(FALSE, 7305, History("max", 5040, Rat(3, 1), Rat(25, 1)),
                                 History("5y", 1260, Zero, Rat(25, 1))),
     BUST  |-> Feed(FALSE, 7305, History("max", 5040, Rat(8, 1), Zero),
                                 History("5y", 1260, Rat(40, 1), Zero)),
     ONEPT |-> Feed(FALSE, 1, History("max", 1, Rat(10, 1), Rat(10, 1)),
                              History("5y", 1, Rat(10, 1), Rat(10, 1))),
     EMPTY |-> Feed(FALSE, 0, NoRows("max"), NoRows("5y")),
     ERR   |-> Feed(TRUE, 0, NoRows("max"), NoRows("5y"))]

Tickers == DOMAIN Market

(***************************************************************************)
(* The moments at which a run can be made, in days after the earliest one: *)
(* what datetime.now() returns.  MIDCO is 1826 days old at the first       *)
(* (under 5 years of 365.25 days) and 1827 days old at the second.         *)
(***************************************************************************)
Clock == {0, 1}

(***************************************************************************)
(* The quote the file import fetches for each ticker: whether the lookup   *)
(* raises, info.get('currentPrice') (NoPrice for None) and the last Close  *)
(* of history(period="1d") (NoRows when it is empty).                      *)
(***************************************************************************)
NoPrice == [k |-> "None", n |-> 0, d |-> 1]

Quote(raises, current_price, day_history) ==
    [raises |-> raises, current_price |-> current_price, day_history |-> day_history]

Quotes ==
    [HYPE  |-> Quote(FALSE, Rat(120, 1), History("1d", 1, Rat(120, 1), Rat(120, 1))),
     MIDCO |-> Quote(FALSE, Rat(50, 1), History("1d", 1, Rat(50, 1), Rat(50, 1))),
     OLDCO |-> Quote(FALSE, NoPrice, History("1d", 1, Rat(50, 1), Rat(50, 1))),
     FLAT  |-> Quote(FALSE, Rat(50, 1), History("1d", 1, Rat(50, 1), Rat(50, 1))),
     ZERO  |-> Quote(FALSE, Rat(25, 1), History("1d", 1, Rat(25, 1), Rat(25, 1))),
     BUST  |-> Quote(FALSE, Zero, History("1d", 1, Zero, Zero)),
     ONEPT |-> Quote(FALSE, Rat(10, 1), History("1d", 1, Rat(10, 1), Rat(10, 1))),
     EMPTY |-> Quote(FALSE, NoPrice, NoRows("1d")),
     ERR   |-> Quote(TRUE, NoPrice, NoRows("1d"))]

(***************************************************************************)
(* User input.  A ticker is typed as text; str.isalpha() rejects the empty *)
(* string and any text with a non-letter.  An amount is typed as text and  *)
(* parsed by float(), which raises ValueError on text that is no number    *)
(* and accepts "inf" and "nan".                                            *)
(***************************************************************************)
NonAlphaInputs == {"", "BRK.B"}
TickerInputs == Tickers \cup NonAlphaInputs
IsAlpha(text) == text \notin NonAlphaInputs

AmountInputs == {"100", "0", "-5", "inf", "abc"}
ValueError == [k |-> "ValueError", n |-> 0, d |-> 1]
ParseFloat(text) ==
    CASE text = "100" -> Rat(100, 1)
      [] text = "2" -> Rat(2, 1)
      [] text = "1" -> One
      [] text = "0" -> Zero
      [] text = "-5" -> Rat(-5, 1)
      [] text = "inf" -> Inf
      [] text = "nan" -> NaN
      [] OTHER -> ValueError

(***************************************************************************)
(* The rows of the imported file: a TICKER cell and a SHARES cell.  The    *)
(* ticker is str(cell).strip().upper(); an empty cell is read as NaN,      *)
(* whose str() is "nan".                                                   *)
(***************************************************************************)
TickerCells == {"midco", "OLDCO", "BUST", "EMPTY", "ERR", "BRK.B", " ", "nan"}
ShareCells == {"1", "2", "0", "abc", ""}
FileRows == {[TICKER |-> t, SHARES |-> x] : t \in TickerCells, x \in ShareCells}

StripUpper(cell) ==
    CASE cell = "midco" -> "MIDCO"
      [] cell = " " -> ""
      [] cell = "nan" -> "NAN"
      [] OTHER -> cell

VARIABLES
    now,                \* the moment of the run, in days after the earliest
    pc,                 \* where growthProjector is
    ticker,             \* the ticker typed, while its amount is asked
    portfolio,          \* the list of (ticker, amount)
    holding_period,     \* the holding period in years, 0 until entered
    idx,                \* the position of the projection loop in portfolio
    analysis,           \* per loop iteration: the locals it computed
    stock_projections,  \* the projection records
    warnings,           \* the warnings and errors printed by the loop
    summary             \* the portfolio summary, NoSummary until computed

vars == <<now, pc, ticker, portfolio, holding_period, idx, analysis,
          stock_projections, warnings, summary>>

NoSummary ==
    [computed |-> FALSE,
     total_initial |-> NaN,
     total_nominal |-> NaN,
     total_real |-> NaN,
     portfolio_cagr |-> [radicand |-> NaN, degree |-> 0],
     average_stock_cagr |-> NaN,
     total_yearly_values |-> <<>>]

Init ==
    /\ now \in Clock
    /\ pc = "choice"
    /\ ticker = ""
    /\ portfolio = <<>>
    /\ holding_period = 0
    /\ idx = 1
    /\ analysis = <<>>
    /\ stock_projections = <<>>
    /\ warnings = <<>>
    /\ summary = NoSummary

(***************************************************************************)
(* Step 1, the choice between manual entry and file import.                *)
(***************************************************************************)
Choose(choice) ==
    /\ pc = "choice"
    /\ pc' = CASE choice = "1" -> "ticker"
              [] choice = "2" -> "file"
              [] OTHER -> "choice"
    /\ UNCHANGED <<now, ticker, portfolio, holding_period, idx, analysis,
                   stock_projections, warnings, summary>>

(***************************************************************************)
(* File import.  A file that cannot be read, or that lacks the TICKER or   *)
(* the SHARES column, ends the run.                                        *)
(***************************************************************************)
OpenFile(readable) ==
    /\ pc = "file"
    /\ pc' = IF readable THEN "import" ELSE "failed"
    /\ UNCHANGED <<now, ticker, portfolio, holding_period, idx, analysis,
                   stock_projections, warnings, summary>>

\* pd.isna(shares) or shares == ''
BlankShares(cell) == cell = ""

SharesAccepted(shares) == shares # ValueError /\ ~Le(shares, Zero)

\* current_price is None or current_price <= 0
PriceMissing(current_price) == current_price = NoPrice \/ Le(current_price, Zero)

\* The price of one row: currentPrice, or the last Close of the one-day
\* history when currentPrice is missing; NoPrice when that history is empty.
FetchPrice(quote) ==
    IF PriceMissing(quote.current_price)
    THEN IF quote.day_history.len # 0 THEN quote.day_history.last ELSE NoPrice
    ELSE quote.current_price

\* The holdings one row appends to the portfolio: none when it is skipped.
RowHoldings(row) ==
    LET tk == StripUpper(row.TICKER)
    IN  IF tk = "" \/ tk = "NAN" \/ BlankShares(row.SHARES) THEN <<>>
        ELSE IF ~IsAlpha(tk) THEN <<>>
        ELSE IF ~SharesAccepted(ParseFloat(row.SHARES)) THEN <<>>
        ELSE IF Quotes[tk].raises THEN <<>>
        ELSE IF FetchPrice(Quotes[tk]) = NoPrice THEN <<>>
        ELSE << <<tk, Mul(ParseFloat(row.SHARES), FetchPrice(Quotes[tk]))>> >>

\* One iteration of df.iterrows().
ImportRow(row) ==
    /\ pc = "import"
    /\ Len(portfolio) < MaxHoldings
    /\ portfolio' = portfolio \o RowHoldings(row)
    /\ UNCHANGED <<now, pc, ticker, holding_period, idx, analysis,
                   stock_projections, warnings, summary>>

\* The end of the file: an empty portfolio ends the run.
ImportDone ==
    /\ pc = "import"
    /\ pc' = IF portfolio = <<>> THEN "failed" ELSE "period"
    /\ UNCHANGED <<now, ticker, portfolio, holding_period, idx, analysis,
                   stock_projections, warnings, summary>>

(***************************************************************************)
(* Manual entry.                                                           *)
(***************************************************************************)
ValidTicker(text) == ~(text = "" \/ ~IsAlpha(text))

EnterTicker(text) ==
    /\ pc = "ticker"
    /\ IF ValidTicker(text)
       THEN ticker' = text /\ pc' = "amount"
       ELSE UNCHANGED <<ticker, pc>>
    /\ UNCHANGED <<now, portfolio, holding_period, idx, analysis,
                   stock_projections, warnings, summary>>

AmountAccepted(amount) == amount # ValueError /\ ~Le(amount, Zero)

EnterAmount(text) ==
    /\ pc = "amount"
    /\ LET amount == ParseFloat(text)
       IN  IF AmountAccepted(amount)
           THEN /\ portfolio' = Append(portfolio, <<ticker, amount>>)
                /\ pc' = "add_more"
           ELSE UNCHANGED <<portfolio, pc>>
    /\ UNCHANGED <<now, ticker, holding_period, idx, analysis,
                   stock_projections, warnings, summary>>

AddMore(answer) ==
    /\ pc = "add_more"
    /\ IF answer = "n"
       THEN pc' = "period"
       ELSE /\ Len(portfolio) < MaxHoldings
            /\ pc' = "ticker"
    /\ UNCHANGED <<now, ticker, portfolio, holding_period, idx, analysis,
                   stock_projections, warnings, summary>>

(***************************************************************************)
(* Step 2, the holding period: int() of the text, rejected when <= 0.      *)
(* The periods tried are a rejected one, the shortest and the longest.     *)
(***************************************************************************)
PeriodInputs == {0, 1, MaxPeriod}

EnterHoldingPeriod(period) ==
    /\ pc = "period"
    /\ IF period <= 0
       THEN UNCHANGED <<holding_period, pc>>
       ELSE holding_period' = period /\ pc' = "loop"
    /\ UNCHANGED <<now, ticker, portfolio, idx, analysis,
                   stock_projections, warnings, summary>>

(***************************************************************************)
(* Step 3, one iteration of the projection loop.                           *)
(***************************************************************************)
\* (datetime.now() - first_date).days / 365.25, datetime.now() being today
YearsSinceIpo(feed, today) == Rat((feed.ipo_days + today) * 4, 1461)

\* SelectWindow with the 5..10 tier left on the whole history.
SelectWindowOldOnly(feed, today) ==
    IF Lt(YearsSinceIpo(feed, today), Rat(10, 1)) THEN feed.max_history
    ELSE feed.hist5y

SelectWindow(feed, today) ==
    IF Lt(YearsSinceIpo(feed, today), Rat(5, 1)) THEN feed.max_history
    ELSE IF Lt(YearsSinceIpo(feed, today), Rat(10, 1)) THEN feed.hist5y
    ELSE feed.hist5y

\* Insufficient without the length test.
InsufficientEmptyOnly(history) == history.len = 0

\* history.empty or len(history) < 2
Insufficient(history) == history.len = 0 \/ history.len < 2

\* ((end_price / start_price) ** (1 / years_of_data)) - 1,
\* years_of_data = len(history) / 252
RawCagr(history) ==
    MinusOne(PowFrac(Div(history.last, history.first), TRADING_DAYS, history.len))

\* CapCagr that also floors a decline at zero.
CapCagrFloored(cagr) ==
    IF Gt(cagr, MAX_CAGR) THEN MAX_CAGR
    ELSE IF Lt(cagr, Zero) THEN Zero
    ELSE cagr

CapCagr(cagr) == IF Gt(cagr, MAX_CAGR) THEN MAX_CAGR ELSE cagr

\* YearlyValues without the power: every later year holds one year's growth.
YearlyValuesNoPower(initial_amount, cagr, period) ==
    [y \in 1..(period + 1) |->
        IF y = 1 THEN initial_amount
        ELSE Mul(initial_amount, Add(One, cagr))]

\* YearlyValues with the loop one year short: range(1, holding_period).
YearlyValuesShort(initial_amount, cagr, period) ==
    [y \in 1..period |->
        IF y = 1 THEN initial_amount
        ELSE Mul(initial_amount, Pow(Add(One, cagr), y - 1))]

\* yearly_values: Python index k is index k + 1 here.
YearlyValues(initial_amount, cagr, period) ==
    [y \in 1..(period + 1) |->
        IF y = 1 THEN initial_amount
        ELSE Mul(initial_amount, Pow(Add(One, cagr), y - 1))]

NominalFinal(yearly_values) == yearly_values[Len(yearly_values)]

\* RealFinal deflating by a single year.
RealFinalOneYear(nominal_final, period) ==
    Div(nominal_final, Add(One, INFLATION_RATE))

RealFinal(nominal_final, period) ==
    Div(nominal_final, Pow(Add(One, INFLATION_RATE), period))

\* pd.isna of the two finals and of every yearly value.
AnyNaN(yearly_values, nominal_final, real_final) ==
    \/ IsNaN(nominal_final)
    \/ IsNaN(real_final)
    \/ \E y \in DOMAIN yearly_values : IsNaN(yearly_values[y])

Projection(tk, initial_amount, cagr, period) ==
    LET yearly_values == YearlyValues(initial_amount, cagr, period)
        nominal_final == NominalFinal(yearly_values)
    IN  [ticker |-> tk,
         initial |-> initial_amount,
         cagr |-> cagr,
         yearly_values |-> yearly_values,
         nominal_final |-> nominal_final,
         real_final |-> RealFinal(nominal_final, period)]

NoHistory == History("none", 0, NaN, NaN)

Locals(outcome, history, cagr) ==
    [outcome |-> outcome, history |-> history, cagr |-> cagr]

Warning(position, tk, kind) == [idx |-> position, ticker |-> tk, kind |-> kind]

InLoop == pc = "loop" /\ idx <= Len(portfolio)

\* Skip that leaves the loop instead of continuing with the next holding.
SkipAborts(kind, history, cagr) ==
    /\ warnings' = Append(warnings, Warning(idx, portfolio[idx][1], kind))
    /\ analysis' = Append(analysis, Locals(kind, history, cagr))
    /\ idx' = Len(portfolio) + 1
    /\ UNCHANGED <<now, pc, ticker, portfolio, holding_period, stock_projections, summary>>

\* "continue" after a warning: nothing is appended to stock_projections.
Skip(kind, history, cagr) ==
    /\ warnings' = Append(warnings, Warning(idx, portfolio[idx][1], kind))
    /\ analysis' = Append(analysis, Locals(kind, history, cagr))
    /\ idx' = idx + 1
    /\ UNCHANGED <<now, pc, ticker, portfolio, holding_period, stock_projections, summary>>

\* stock.info or stock.history raises: except Exception, "Error analyzing".
AnalyzeRaises ==
    /\ InLoop
    /\ Market[portfolio[idx][1]].raises
    /\ Skip("error", NoHistory, NaN)

\* max_history.empty
SkipNoHistory ==
    /\ InLoop
    /\ LET feed == Market[portfolio[idx][1]]
       IN  /\ ~feed.raises
           /\ feed.max_history.len = 0
           /\ Skip("no_history", NoHistory, NaN)

SkipInsufficient ==
    /\ InLoop
    /\ LET feed == Market[portfolio[idx][1]]
           history == SelectWindow(feed, now)
       IN  /\ ~feed.raises
           /\ feed.max_history.len # 0
           /\ Insufficient(history)
           /\ Skip("insufficient", history, NaN)

\* Computed taking either window, whatever the age of the security.
ComputedEitherWindow(holding, period) ==
    {[history |-> history, raw |-> RawCagr(history),
      proj |-> Projection(holding[1], holding[2], CapCagr(RawCagr(history)), period)] :
        history \in {Market[holding[1]].max_history, Market[holding[1]].hist5y}}

\* Computed carrying the rate of the previous record over to the next one.
ComputedCarryOver(holding, period) ==
    LET history == SelectWindow(Market[holding[1]], now)
    IN  {[history |-> history, raw |-> raw,
          proj |-> Projection(holding[1], holding[2], CapCagr(raw), period)] :
            raw \in {IF stock_projections = <<>> THEN RawCagr(history)
                     ELSE stock_projections[Len(stock_projections)].cagr}}

\* The locals of an iteration that reaches the projection: the window, the
\* raw rate and the record built from the capped rate.
Computed(holding, period) ==
    LET history == SelectWindow(Market[holding[1]], now)
    IN  {[history |-> history, raw |-> raw,
          proj |-> Projection(holding[1], holding[2], CapCagr(raw), period)] :
            raw \in {RawCagr(history)}}

ReachesProjection ==
    /\ InLoop
    /\ ~Market[portfolio[idx][1]].raises
    /\ Market[portfolio[idx][1]].max_history.len # 0
    /\ ~Insufficient(SelectWindow(Market[portfolio[idx][1]], now))

SkipNaN ==
    /\ ReachesProjection
    /\ \E c \in Computed(portfolio[idx], holding_period) :
          /\ AnyNaN(c.proj.yearly_values, c.proj.nominal_final, c.proj.real_final)
          /\ Skip("nan", c.history, c.raw)

StoreProjection ==
    /\ ReachesProjection
    /\ \E c \in Computed(portfolio[idx], holding_period) :
          /\ ~AnyNaN(c.proj.yearly_values, c.proj.nominal_final, c.proj.real_final)
          /\ stock_projections' = Append(stock_projections, c.proj)
          /\ analysis' = Append(analysis, Locals("stored", c.history, c.raw))
    /\ idx' = idx + 1
    /\ UNCHANGED <<now, pc, ticker, portfolio, holding_period, warnings, summary>>

(***************************************************************************)
(* Step 4, after the loop: the portfolio summary, or the return to the     *)
(* menu when no projection was stored.                                     *)
(***************************************************************************)
LoopDone == pc = "loop" /\ idx > Len(portfolio)

\* NoProjections without the emptiness test.
NoProjectionsNever(projections) == FALSE

NoProjections(projections) == projections = <<>>

Column(projections, field) ==
    [p \in DOMAIN projections |-> projections[p][field]]

\* TotalYearlyValues that leaves the final year at its initial 0.
TotalYearlyValuesShort(projections, period) ==
    [y \in 1..(period + 1) |->
        IF y = period + 1 THEN Zero
        ELSE SumSeq([p \in DOMAIN projections |-> projections[p].yearly_values[y]])]

\* total_yearly_values[i] += value, for every projection in turn
TotalYearlyValues(projections, period) ==
    [y \in 1..(period + 1) |->
        SumSeq([p \in DOMAIN projections |-> projections[p].yearly_values[y]])]

\* (total_nominal / total_initial) ** (1 / holding_period) - 1, kept exact as
\* the number c with (1 + c) ** degree = radicand.
PortfolioCagr(total_nominal, total_initial, period) ==
    [radicand |-> Div(total_nominal, total_initial), degree |-> period]

\* AverageStockCagr without the division by the number of records.
AverageStockCagrOfSum(projections) == SumSeq(Column(projections, "cagr"))

AverageStockCagr(projections) ==
    Div(SumSeq(Column(projections, "cagr")), Rat(Len(projections), 1))

Summary(projections, period) ==
    LET total_initial == SumSeq(Column(projections, "initial"))
        total_nominal == SumSeq(Column(projections, "nominal_final"))
        total_real == SumSeq(Column(projections, "real_final"))
    IN  [computed |-> TRUE,
         total_initial |-> total_initial,
         total_nominal |-> total_nominal,
         total_real |-> total_real,
         portfolio_cagr |-> PortfolioCagr(total_nominal, total_initial, period),
         average_stock_cagr |-> AverageStockCagr(projections),
         total_yearly_values |-> TotalYearlyValues(projections, period)]

NoValidProjections ==
    /\ LoopDone
    /\ NoProjections(stock_projections)
    /\ pc' = "failed"
    /\ UNCHANGED <<now, ticker, portfolio, holding_period, idx, analysis,
                   stock_projections, warnings, summary>>

Summarize ==
    /\ LoopDone
    /\ ~NoProjections(stock_projections)
    /\ summary' = Summary(stock_projections, holding_period)
    /\ pc' = "done"
    /\ UNCHANGED <<now, ticker, portfolio, holding_period, idx, analysis,
                   stock_projections, warnings>>

Next ==
    \/ \E choice \in {"1", "2", "3"} : Choose(choice)
    \/ \E readable \in BOOLEAN : OpenFile(readable)
    \/ \E row \in FileRows : ImportRow(row)
    \/ ImportDone
    \/ \E text \in TickerInputs : EnterTicker(text)
    \/ \E text \in AmountInputs : EnterAmount(text)
    \/ \E answer \in {"y", "n"} : AddMore(answer)
    \/ \E period \in PeriodInputs : EnterHoldingPeriod(period)
    \/ AnalyzeRaises
    \/ SkipNoHistory
    \/ SkipInsufficient
    \/ SkipNaN
    \/ StoreProjection
    \/ NoValidProjections
    \/ Summarize

Spec == Init /\ [][Next]_vars

(***************************************************************************)
(* Properties.                                                             *)
(***************************************************************************)
\* The loop positions whose iteration stored a record, and the record of one.
StoredPositions == {a \in DOMAIN analysis : analysis[a].outcome = "stored"}
RecordIndex(a) == Cardinality({b \in StoredPositions : b <= a})
RecordOf(a) == stock_projections[RecordIndex(a)]
WarningsOf(a) == {w \in DOMAIN warnings : warnings[w].idx = a}

\* C1: the growth rate of every projection record is at most the cap 0.15,
\* and a raw rate that is at most 0.15, negative ones included, is stored
\* unchanged.
C1_CapOnlyFromAbove ==
    /\ \A p \in DOMAIN stock_projections :
          Le(stock_projections[p].cagr, Rat(15, 100))
    /\ \A a \in StoredPositions :
          Le(analysis[a].cagr, Rat(15, 100)) => RecordOf(a).cagr = analysis[a].cagr

C1_Witness ==
    /\ \E a \in StoredPositions :
          /\ IsFinite(analysis[a].cagr)
          /\ Lt(Rat(15, 100), analysis[a].cagr)
          /\ RecordOf(a).cagr = Rat(15, 100)
    /\ \E a \in StoredPositions :
          /\ Lt(analysis[a].cagr, Zero)
          /\ RecordOf(a).cagr = analysis[a].cagr

\* C2: the window of the growth rate is the whole history when the security
\* is younger than 5 years (days / 365.25 < 5) and the last 5 years at every
\* other age.
AgedUnder(feed, years) == (feed.ipo_days + now) * 100 < years * 36525

C2_WindowByAge ==
    \A a \in DOMAIN analysis :
        analysis[a].outcome \in {"insufficient", "nan", "stored"} =>
            LET feed == Market[portfolio[a][1]]
            IN  analysis[a].history =
                    IF AgedUnder(feed, 5) THEN feed.max_history ELSE feed.hist5y

C2_Witness ==
    /\ \E a \in StoredPositions :
          /\ AgedUnder(Market[portfolio[a][1]], 5)
          /\ analysis[a].history.period = "max"
    /\ \E a \in StoredPositions :
          /\ ~AgedUnder(Market[portfolio[a][1]], 5)
          /\ AgedUnder(Market[portfolio[a][1]], 10)
          /\ analysis[a].history.period = "5y"
          /\ Market[portfolio[a][1]].max_history.len # analysis[a].history.len

\* C3: a security whose window starts at a closing price of zero never gets a
\* projection record: it is skipped with a warning.
C3_ZeroStartSkipped ==
    \A a \in DOMAIN analysis :
        (analysis[a].history.len >= 2 /\ analysis[a].history.first = Zero) =>
            /\ analysis[a].outcome # "stored"
            /\ WarningsOf(a) # {}

\* C4: every value of every stored projection record is finite.
C4_StoredFinite ==
    \A p \in DOMAIN stock_projections :
        /\ IsFinite(stock_projections[p].nominal_final)
        /\ IsFinite(stock_projections[p].real_final)
        /\ \A y \in DOMAIN stock_projections[p].yearly_values :
              IsFinite(stock_projections[p].yearly_values[y])

\* C5: a security whose window has fewer than 2 price points gets exactly one
\* warning and no record, and the loop moves on to the next security.
FewPoints(a) ==
    /\ ~Market[portfolio[a][1]].raises
    /\ \/ Market[portfolio[a][1]].max_history.len = 0
       \/ analysis[a].history.len < 2

C5_FewPointsSkipped ==
    /\ \A a \in DOMAIN analysis :
          FewPoints(a) =>
              /\ a \notin StoredPositions
              /\ Cardinality(WarningsOf(a)) = 1
    /\ Len(stock_projections) = Cardinality(StoredPositions)
    /\ Len(analysis) = idx - 1

C5_Witness ==
    \E a \in DOMAIN analysis :
        /\ FewPoints(a)
        /\ analysis[a].history.len = 1
        /\ Cardinality(WarningsOf(a)) = 1
        /\ a + 1 \in StoredPositions

\* C6: when every requested security was excluded the run ends in the
\* no-valid-projections failure without a summary; a summary is computed only
\* from at least one projection record.
C6_NoSummaryWithoutRecords ==
    /\ summary.computed => stock_projections # <<>>
    /\ pc = "done" => summary.computed
    /\ pc = "failed" => summary = NoSummary
    /\ (pc \in {"done", "failed"} /\ stock_projections = <<>>) => pc = "failed"

C6_Witness ==
    /\ pc = "failed"
    /\ Len(portfolio) = 2
    /\ Len(warnings) = 2
    /\ summary = NoSummary

\* C7: every holding the loop has passed produced exactly one outcome, a
\* projection record or a warning; each record is the one its own holding
\* yields, whatever happened to the others; the run fails only when every
\* holding was excluded.
OwnRecord(holding, period, today) ==
    Projection(holding[1], holding[2],
               CapCagr(RawCagr(SelectWindow(Market[holding[1]], today))), period)

\* OwnRecord of every holding that can be typed in or imported, for every
\* period and moment.
EnterableHoldings ==
    {<<t, ParseFloat(x)>> :
        t \in Tickers, x \in {y \in AmountInputs : AmountAccepted(ParseFloat(y))}}
    \cup {RowHoldings(row)[1] : row \in {r \in FileRows : RowHoldings(r) # <<>>}}

OwnRecords ==
    [h \in EnterableHoldings |->
        [p \in 1..MaxPeriod |-> [t \in Clock |-> OwnRecord(h, p, t)]]]

C7_OneOutcomeEach ==
    /\ Len(analysis) = idx - 1
    /\ Len(stock_projections) + Len(warnings) = Len(analysis)
    /\ \A a \in DOMAIN analysis :
          IF a \in StoredPositions
          THEN WarningsOf(a) = {}
          ELSE Cardinality(WarningsOf(a)) = 1
    /\ idx > Len(portfolio) =>
          \A a \in StoredPositions :
              RecordOf(a) = OwnRecords[portfolio[a]][holding_period][now]
    /\ pc \in {"done", "failed"} => Len(analysis) = Len(portfolio)
    /\ pc = "failed" => StoredPositions = {}

C7_Witness ==
    /\ pc = "done"
    /\ \E a, b \in DOMAIN analysis :
          /\ a < b
          /\ analysis[a].outcome = "error"
          /\ b \in StoredPositions
          /\ RecordOf(b).ticker = portfolio[b][1]
          /\ RecordOf(b) = OwnRecord(portfolio[b], holding_period, now)

\* C8: yearly_values of every record has holding_period + 1 entries, starts at
\* the initial amount, holds initial * (1 + growth_rate)^k at year k, and ends
\* at nominal_final.
C8_YearlyValues ==
    \A p \in DOMAIN stock_projections :
        LET r == stock_projections[p]
        IN  /\ Len(r.yearly_values) = holding_period + 1
            /\ r.yearly_values[1] = r.initial
            /\ \A k \in 1..holding_period :
                  r.yearly_values[k + 1] = Mul(r.initial, Pow(Add(One, r.cagr), k))
            /\ r.nominal_final = r.yearly_values[holding_period + 1]

C8_Witness ==
    \E p \in DOMAIN stock_projections :
        LET r == stock_projections[p]
        IN  /\ holding_period = 3
            /\ r.initial = Rat(100, 1)
            /\ r.cagr = Rat(1, 10)
            /\ r.yearly_values = <<Rat(100, 1), Rat(110, 1), Rat(121, 1), Rat(1331, 10)>>

\* C9: real_final of every record is nominal_final divided by
\* (1 + 0.025)^holding_period.
C9_RealFinal ==
    \A p \in DOMAIN stock_projections :
        LET r == stock_projections[p]
        IN  Mul(r.real_final, Pow(Rat(1025, 1000), holding_period)) = r.nominal_final

\* initial 100, rate 0.10, period 3: nominal 133.1, real 133.1 / 1.025^3.
C9_Witness ==
    \E p \in DOMAIN stock_projections :
        LET r == stock_projections[p]
        IN  /\ holding_period = 3
            /\ r.initial = Rat(100, 1)
            /\ r.cagr = Rat(1, 10)
            /\ r.nominal_final = Rat(1331, 10)
            /\ r.real_final = Rat(1331 * 6400, 68921)

\* C10: the totals are the sums over exactly the stored records: total_initial
\* of the amounts of the holdings that were not skipped, total_nominal and
\* total_real of the records' finals, total_yearly_values[k] of the records'
\* yearly_values[k].
RECURSIVE Total(_, _)
Total(f, n) == IF n = 0 THEN Zero ELSE Add(Total(f, n - 1), f[n])

StoredAmounts ==
    [a \in DOMAIN analysis |->
        IF a \in StoredPositions THEN portfolio[a][2] ELSE Zero]

C10_TotalsAreSums ==
    summary.computed =>
        LET n == Len(stock_projections)
        IN  /\ summary.total_initial = Total(StoredAmounts, Len(analysis))
            /\ summary.total_nominal =
                  Total([p \in 1..n |-> stock_projections[p].nominal_final], n)
            /\ summary.total_real =
                  Total([p \in 1..n |-> stock_projections[p].real_final], n)
            /\ Len(summary.total_yearly_values) = holding_period + 1
            /\ \A y \in 1..(holding_period + 1) :
                  summary.total_yearly_values[y] =
                      Total([p \in 1..n |-> stock_projections[p].yearly_values[y]], n)

C10_Witness ==
    /\ summary.computed
    /\ Len(stock_projections) = 2
    /\ IsFinite(summary.total_real)
    /\ stock_projections[1].cagr # stock_projections[2].cagr
    /\ stock_projections[1].initial # stock_projections[2].initial
    /\ holding_period > 1

\* C11 as stated: for a positive (and finite) initial amount yearly_values is
\* strictly increasing when the growth rate is positive, strictly decreasing
\* when it is negative (a rate of -1 included) and constant when it is zero.
StrictlyIncreasing(v) == \A k \in 1..(Len(v) - 1) : Lt(v[k], v[k + 1])
StrictlyDecreasing(v) == \A k \in 1..(Len(v) - 1) : Gt(v[k], v[k + 1])
Constant(v) == \A k \in 1..(Len(v) - 1) : v[k] = v[k + 1]

C11_MonotoneAsStated ==
    \A p \in DOMAIN stock_projections :
        LET r == stock_projections[p]
        IN  (IsFinite(r.initial) /\ Gt(r.initial, Zero)) =>
                /\ Gt(r.cagr, Zero) => StrictlyIncreasing(r.yearly_values)
                /\ Lt(r.cagr, Zero) => StrictlyDecreasing(r.yearly_values)
                /\ r.cagr = Zero => Constant(r.yearly_values)

\* C11: for a finite positive initial amount yearly_values is strictly
\* increasing when the growth rate is positive, strictly decreasing when the
\* rate is between -1 and 0, and constant when it is zero; at a rate of -1 it
\* drops from the initial amount to 0 at year 1 and stays at 0; for an
\* infinite initial amount every yearly value is infinite.
C11_Monotone ==
    \A p \in DOMAIN stock_projections :
        LET r == stock_projections[p]
            v == r.yearly_values
        IN  Gt(r.initial, Zero) =>
                IF IsInf(r.initial)
                THEN \A k \in DOMAIN v : IsInf(v[k])
                ELSE /\ Gt(r.cagr, Zero) => StrictlyIncreasing(v)
                     /\ (Lt(r.cagr, Zero) /\ Gt(r.cagr, Rat(-1, 1))) =>
                           StrictlyDecreasing(v)
                     /\ r.cagr = Zero => Constant(v)
                     /\ r.cagr = Rat(-1, 1) =>
                           /\ Gt(v[1], v[2])
                           /\ \A k \in 2..Len(v) : v[k] = Zero
                     /\ Le(Rat(-1, 1), r.cagr)

C11_Witness ==
    /\ holding_period = 3
    /\ \E p, q \in DOMAIN stock_projections :
          /\ stock_projections[p].cagr = Rat(-1, 1)
          /\ stock_projections[p].yearly_values =
                <<Rat(100, 1), Zero, Zero, Zero>>
          /\ stock_projections[q].cagr = Rat(-1, 10)
          /\ stock_projections[q].yearly_values =
                <<Rat(100, 1), Rat(90, 1), Rat(81, 1), Rat(729, 10)>>

\* x > y on finite numbers, with the common factor of the denominators
\* removed before the cross-multiplication.
Bigger(x, y) ==
    LET g == GCD(x.d, y.d)
    IN  x.n * (y.d \div g) > y.n * (x.d \div g)

\* (1 + rate) ** degree, to compare a rate with portfolio_cagr exactly:
\* rate = portfolio_cagr iff Compound(rate, degree) = radicand.
Compound(rate, degree) == Pow(Add(One, rate), degree)

PositiveFinite(x) == IsFinite(x) /\ Gt(x, Zero)

SameRates ==
    \A p, q \in DOMAIN stock_projections :
        stock_projections[p].cagr = stock_projections[q].cagr
SameSizes ==
    \A p, q \in DOMAIN stock_projections :
        stock_projections[p].initial = stock_projections[q].initial

\* C12 as stated: with finite positive amounts, portfolio_cagr differs from
\* average_stock_cagr whenever two included records differ in position size
\* or in growth rate.
C12_DiffersAsStated ==
    (summary.computed /\ PositiveFinite(summary.total_initial)
        /\ (~SameSizes \/ ~SameRates)) =>
            Compound(summary.average_stock_cagr, summary.portfolio_cagr.degree)
                # summary.portfolio_cagr.radicand

\* C12: with a finite positive total, portfolio_cagr equals average_stock_cagr when
\* all records share one growth rate (whatever their sizes) and when the
\* sizes are all equal and the holding period is 1; it is strictly greater
\* than the average when the sizes are equal, the rates differ and the
\* holding period is at least 2, and it differs from the average for two
\* records of different sizes and rates held for 1 year.  With an infinite
\* amount, or with a total of zero, portfolio_cagr is NaN.
C12_BlendedVsAverage ==
    summary.computed =>
        LET blended == summary.portfolio_cagr
            average == Compound(summary.average_stock_cagr, blended.degree)
        IN  /\ blended.degree = holding_period
            /\ IF PositiveFinite(summary.total_initial)
               THEN /\ SameRates => average = blended.radicand
                    /\ (SameSizes /\ blended.degree = 1) =>
                          average = blended.radicand
                    /\ (SameSizes /\ ~SameRates /\ blended.degree >= 2) =>
                          Bigger(blended.radicand, average)
                    /\ (~SameSizes /\ ~SameRates /\ blended.degree = 1
                            /\ Len(stock_projections) = 2) =>
                          average # blended.radicand
               ELSE IsNaN(blended.radicand)

C12_Witness ==
    /\ summary.computed
    /\ holding_period = 3
    /\ Len(stock_projections) = 2
    /\ stock_projections[1].initial = Rat(100, 1)
    /\ stock_projections[2].initial = Rat(50, 1)
    /\ stock_projections[1].cagr = Rat(1, 10)
    /\ stock_projections[2].cagr = Rat(1, 10)
    /\ summary.average_stock_cagr = Rat(1, 10)
    /\ summary.portfolio_cagr.radicand = Rat(1331, 1000)

\* C13: when the records do not all have the same growth rate, portfolio_cagr
\* lies strictly between the smallest and the largest rate; when they all
\* share one rate g, portfolio_cagr equals g.
Rates == {stock_projections[p].cagr : p \in DOMAIN stock_projections}
MinRate == CHOOSE g \in Rates : \A h \in Rates : Le(g, h)
MaxRate == CHOOSE g \in Rates : \A h \in Rates : Le(h, g)

C13_BetweenMinAndMax ==
    summary.computed =>
        LET blended == summary.portfolio_cagr
        IN  IF SameRates
            THEN blended.radicand = Compound(MinRate, blended.degree)
            ELSE /\ Lt(Compound(MinRate, blended.degree), blended.radicand)
                 /\ Lt(blended.radicand, Compound(MaxRate, blended.degree))

\* Whether a run made at moment today stores a record for a holding, for every
\* holding that can be typed in or imported, every period and every moment.
OwnStored(holding, period, today) ==
    LET feed == Market[holding[1]]
        record == OwnRecord(holding, period, today)
    IN  /\ ~feed.raises
        /\ feed.max_history.len # 0
        /\ ~Insufficient(SelectWindow(feed, today))
        /\ ~AnyNaN(record.yearly_values, record.nominal_final, record.real_final)

OwnStoreds ==
    [h \in EnterableHoldings |->
        [p \in 1..MaxPeriod |-> [t \in Clock |-> OwnStored(h, p, t)]]]

\* The records a run over the requests stores when it is made at moment today.
RECURSIVE RunRecords(_, _, _)
RunRecords(requests, period, today) ==
    IF requests = <<>> THEN <<>>
    ELSE LET last == requests[Len(requests)]
             front == RunRecords(SubSeq(requests, 1, Len(requests) - 1), period, today)
         IN  IF OwnStoreds[last][period][today]
             THEN Append(front, OwnRecords[last][period][today])
             ELSE front

InLoopOrAfter == pc \in {"loop", "done", "failed"} /\ holding_period > 0

\* C14 as stated: the records of a run are those of a run over the same
\* requests, period and price data made at any other moment.
C14_SameAtEveryMoment ==
    InLoopOrAfter =>
        \A t \in Clock :
            stock_projections =
                RunRecords(SubSeq(portfolio, 1, idx - 1), holding_period, t)

\* C14: the records of a run are a function of the requests, the period, the
\* price data and the moment of the run, and they are the same at every
\* moment at which each requested security is on the same side of 5 years
\* of age (days / 365.25 < 5).
SameTiers(t) ==
    \A a \in DOMAIN portfolio :
        LET days == Market[portfolio[a][1]].ipo_days
        IN  ((days + t) * 100 < 5 * 36525) <=> ((days + now) * 100 < 5 * 36525)

C14_SameAtSameAges ==
    InLoopOrAfter =>
        \A t \in Clock :
            SameTiers(t) =>
                stock_projections =
                    RunRecords(SubSeq(portfolio, 1, idx - 1), holding_period, t)

C14_Witness ==
    /\ pc = "done"
    /\ \E t \in Clock :
          /\ t < now
          /\ ~SameTiers(t)
          /\ stock_projections # RunRecords(portfolio, holding_period, t)
    /\ stock_projections = RunRecords(portfolio, holding_period, now)
    /\ \E p \in DOMAIN stock_projections :
          /\ stock_projections[p].ticker = "MIDCO"
          /\ stock_projections[p].cagr = Rat(1, 10)

\* C15: the outcome of every holding is the one a run of that holding alone
\* gives, so the run over the requests in any other order stores the same set
\* of records and gives the same totals; no total is computed before every
\* holding has been processed.
Range(f) == {f[x] : x \in DOMAIN f}
Reordered(order) == [a \in DOMAIN portfolio |-> portfolio[order[a]]]
Alone(a) == RunRecords(<<portfolio[a]>>, holding_period, now)

C16_ValidHoldings ==
    /\ pc \in {"loop", "done"} =>
          /\ \A a \in DOMAIN portfolio :
                /\ ValidTicker(portfolio[a][1])
                /\ IsFinite(portfolio[a][2])
                /\ Gt(portfolio[a][2], Zero)
          /\ holding_period >= 1
    /\ summary.computed => Gt(summary.total_initial, Zero)

====
